---- MODULE Spec2Model ----
(***************************************************************************)
(* Model of the IndexTTS serving gateway (src/api.py, src/config_api.py).  *)
(*                                                                         *)
(* The service is one uvicorn process.  Every route handler is an          *)
(* `async def` coroutine and runs on the single event-loop thread; the     *)
(* engine calls tts.infer / tts.infer_fast are plain blocking calls, so a  *)
(* handler keeps the event loop from its first statement to its return.    *)
(* The only code that runs off the loop is the synchronous dependency      *)
(* get_tts_instance, which FastAPI runs in its thread pool before the      *)
(* handler coroutine is scheduled.                                         *)
(*                                                                         *)
(* State of the program: the globals tts_instance and stats, the           *)
(* configuration dictionary, and for every request the position of its     *)
(* handler.  calls, recorded, history and lastInit are history variables:  *)
(* they record what the program did and are never read by an action.       *)
(***************************************************************************)
EXTENDS Integers, Sequences, FiniteSets, TLC

\* ----------------------------------------------------------------- bounds
MaxRequests == 2        \* requests issued in one run
MaxItems    == 3        \* synthesis items carried by all requests of one run
MaxTime     == 1        \* ticks of the wall clock
MaxRecords  == 1002     \* recordings in the stats-only specification

\* ------------------------------------------------------ program constants
WindowCap == 1000                   \* update_stats keeps the last 1000 samples
DEFAULT_MAX_CONCURRENT_REQUESTS == 10
DEFAULT_REQUEST_TIMEOUT == 300      \* seconds
DEFAULT_MAX_FILE_SIZE == 52428800   \* 50 * 1024 * 1024 bytes
DEFAULT_MAX_FILE_AGE == 86400       \* seconds
DEFAULT_AUTO_CLEANUP == FALSE
MIN_TEXT_LENGTH == 1                \* TTSRequest.text min_length
MAX_TEXT_LENGTH == 10000            \* TTSRequest.text max_length
MAX_BATCH_ITEMS == 100              \* BatchTTSRequest.requests max_items

Req == 1..MaxRequests

None == 0                           \* Python's None for tts_instance

\* reference-audio paths a request can carry: absent, a file that exists
\* on disk, a file that does not exist
NoPath      == "None"
RefExisting == "uploads/ref.wav"
RefMissing  == "uploads/missing.wav"
RefPaths    == {NoPath, RefExisting, RefMissing}

SynthKinds == {"tts", "tts_fast", "batch_tts"}
Kinds      == SynthKinds \cup {"init_model"}

\* values MAX_CONCURRENT_REQUESTS can take from the environment
EnvMaxConcurrent == {1, DEFAULT_MAX_CONCURRENT_REQUESTS}

VARIABLES
    phase,          \* "starting" (lifespan not yet run), "serving" or "stopped"
    tts_instance,   \* global tts_instance: None or the identity of an engine
    constructed,    \* number of IndexTTS objects constructed so far
    stats,          \* global stats dictionary
    config,         \* get_config(): the entries the claims are about
    fs,             \* paths that exist on disk (directories and files)
    stat,           \* per file of fs: directory, name, size, st_ctime
    uuid,           \* number of uuid4() values drawn so far
    now,            \* time.time()
    loop,           \* request whose coroutine runs on the event loop, 0 if idle
    req,            \* per request: kind, payload, handler position, response
    calls,          \* history: engine calls started, in order
    recorded,       \* history: per request, the success flags it recorded
    history,        \* history: every sample ever passed to update_stats
    allocated,      \* history: the generated paths, each with whether it was free
    lastInit        \* history: outcome of the latest init_tts_model call

vars == <<phase, tts_instance, constructed, stats, config, fs, stat, uuid, now,
          loop, req, calls, recorded, history, allocated, lastInit>>

\* the artifact store: the two directories and the names generated for them
disk == <<fs, stat, uuid, allocated>>

\* ------------------------------------------------------------ stats (pure)
stats0 == [total_requests      |-> 0,
           successful_requests |-> 0,
           failed_requests     |-> 0,
           response_times      |-> <<>>]

\* Python's s[-n:] for a list at least n long
LastN(s, n) == SubSeq(s, Len(s) - n + 1, Len(s))

\* variant of update_stats that trims a full window to its first 1000 samples
update_stats_keep_first(st, success, response_time) ==
    LET times == Append(st.response_times, response_time) IN
    [total_requests      |-> st.total_requests + 1,
     successful_requests |-> st.successful_requests + (IF success THEN 1 ELSE 0),
     failed_requests     |-> st.failed_requests + (IF success THEN 0 ELSE 1),
     response_times      |-> IF Len(times) > WindowCap
                             THEN SubSeq(times, 1, WindowCap)
                             ELSE times]

\* variant of update_stats whose window is a list that grows without limit
update_stats_unbounded(st, success, response_time) ==
    [total_requests      |-> st.total_requests + 1,
     successful_requests |-> st.successful_requests + (IF success THEN 1 ELSE 0),
     failed_requests     |-> st.failed_requests + (IF success THEN 0 ELSE 1),
     response_times      |-> Append(st.response_times, response_time)]

\* update_stats(success, response_time): the dictionary after the call
update_stats(st, success, response_time) ==
    LET times == Append(st.response_times, response_time) IN
    [total_requests      |-> st.total_requests + 1,
     successful_requests |-> st.successful_requests + (IF success THEN 1 ELSE 0),
     failed_requests     |-> st.failed_requests + (IF success THEN 0 ELSE 1),
     response_times      |-> IF Len(times) > WindowCap
                             THEN LastN(times, WindowCap)
                             ELSE times]

\* ------------------------------------------------------------ file names
\* A file name is a sequence of tokens: the token "." and strings that hold
\* neither "." nor "/".  A file is a directory and a name.
RECURSIVE Join(_)
Join(name) == IF name = <<>> THEN "" ELSE Head(name) \o Join(Tail(name))

PathOf(f) == f.dir \o "/" \o Join(f.name)

\* A {filename:path} route parameter may also hold the tokens "/" and "..":
\* the components of such a name, split at "/"
RECURSIVE Components(_)
Components(name) ==
    IF \A i \in 1..Len(name) : name[i] # "/"
    THEN <<name>>
    ELSE LET k == CHOOSE i \in 1..Len(name) :
                      name[i] = "/" /\ \A j \in 1..(i - 1) : name[j] # "/"
         IN  <<SubSeq(name, 1, k - 1)>> \o Components(SubSeq(name, k + 1, Len(name)))

\* no file: a path the operating system cannot resolve
NoFile == [dir |-> "?", name |-> <<>>]

\* The file the operating system reaches from directory cur of the working
\* directory ("" is the working directory itself) along the components:
\* ".." steps to the parent, a directory name steps into that directory if
\* it exists, the last component names the file.  The modelled tree is the
\* working directory with uploads and outputs; a path that leaves it
\* reaches no modelled file.
RECURSIVE Walk(_, _, _)
Walk(cur, comps, files) ==
    IF Len(comps) = 1 THEN [dir |-> cur, name |-> comps[1]]
    ELSE IF cur # "" /\ cur \notin files THEN NoFile
    ELSE IF Head(comps) = <<"..">>
         THEN IF cur = "" THEN NoFile ELSE Walk("", Tail(comps), files)
    ELSE IF cur = "" /\ Join(Head(comps)) \in files \cap {"uploads", "outputs"}
         THEN Walk(Join(Head(comps)), Tail(comps), files)
    ELSE NoFile

\* Path("outputs") / filename, as the operating system resolves it
OutputsFile(filename, files) == Walk("outputs", Components(filename), files)

\* request.output_path left out
NoOut == [dir |-> "", name |-> <<>>]

\* str(uuid.uuid4()) for the n-th value drawn by the process.  uuid4 is taken
\* never to return the same value twice, nor a value used by an earlier run.
Uuid(n) == "uuid" \o ToString(n)

\* variant of OutputFile that leaves out the output directory
OutputFileInCwd(n) == [dir |-> ".", name |-> <<Uuid(n), ".", "wav">>]

\* f"{uuid.uuid4()}.wav" under outputs
OutputFile(n) == [dir |-> "outputs", name |-> <<Uuid(n), ".", "wav">>]

\* f"batch_{uuid.uuid4()}_{i}.wav" under outputs
BatchOutputFile(n, i) ==
    [dir |-> "outputs", name |-> <<"batch_", Uuid(n), "_", ToString(i), ".", "wav">>]

SmallSize == 10240                  \* bytes of an ordinary audio file

\* the stat table after file f was written with `size` bytes at time t
WriteFile(st, f, size, t) ==
    [p \in DOMAIN st \cup {PathOf(f)} |->
        IF p = PathOf(f)
        THEN [dir |-> f.dir, name |-> f.name, size |-> size, st_ctime |-> t]
        ELSE st[p]]

\* Path(name).suffix: from the last "." on, unless that "." opens or ends
\* the name
LastDot(name) ==
    IF \E i \in 1..Len(name) : name[i] = "."
    THEN CHOOSE i \in 1..Len(name) :
            name[i] = "." /\ \A j \in (i + 1)..Len(name) : name[j] # "."
    ELSE 0

suffix(name) ==
    IF 1 < LastDot(name) /\ LastDot(name) < Len(name)
    THEN SubSeq(name, LastDot(name), Len(name))
    ELSE <<>>

\* str.lower(), token by token, over the tokens the requests use
LowerToken(tok) == IF tok = "WAV" THEN "wav" ELSE tok

lower(name) == [i \in 1..Len(name) |-> LowerToken(name[i])]

ALLOWED_AUDIO_FORMATS ==
    {<<".", "wav">>, <<".", "mp3">>, <<".", "flac">>, <<".", "m4a">>}

\* the pattern "*.wav" of Path.glob
glob_wav(name) ==
    Len(name) >= 2 /\ name[Len(name) - 1] = "." /\ name[Len(name)] = "wav"

\* variant of UploadPath that stores the upload under its declared name
UploadPathDeclaredName(n, filename) == [dir |-> "uploads", name |-> filename]

\* upload_dir / f"{uuid.uuid4()}_{file.filename}"
UploadPath(n, filename) == [dir |-> "uploads", name |-> <<Uuid(n), "_">> \o filename]

\* the reference audio present when the service starts
RefFile == [dir |-> "uploads", name |-> <<"ref", ".", "wav">>]

stat0 == WriteFile(<<>>, RefFile, SmallSize, 0)

\* ------------------------------------------------------------ request text
\* the string s written n times
RECURSIVE Repeat(_, _)
Repeat(s, n) ==
    IF n = 0 THEN ""
    ELSE IF n % 2 = 0 THEN Repeat(s, n \div 2) \o Repeat(s, n \div 2)
    ELSE s \o Repeat(s, n - 1)

Hello == "hello"

\* variant of valid_body that accepts every body
valid_body_unchecked(k, texts) == TRUE

\* the Field constraints pydantic checks on the body of a synthesis route:
\* min_length / max_length of every text, max_items of a batch
valid_body(k, texts) ==
    /\ \A i \in 1..Len(texts) :
          MIN_TEXT_LENGTH <= Len(texts[i]) /\ Len(texts[i]) <= MAX_TEXT_LENGTH
    /\ k = "batch_tts" => Len(texts) <= MAX_BATCH_ITEMS

\* body of a response not yet sent, or of one sent as HTTPException
NoBody == [detail |-> "none"]

\* the dictionary /tts and /tts_fast return
SynthResponse(output_path, inference_time, text, message) ==
    [success        |-> TRUE,
     output_path    |-> output_path,
     inference_time |-> inference_time,
     text_length    |-> Len(text),
     message        |-> message]

\* ------------------------------------------------------------------- Init
req0 == [kind       |-> "none",
         pc         |-> "idle",
         items      |-> <<>>,
         texts      |-> <<>>,
         given      |-> <<>>,
         out        |-> NoOut,
         filename   |-> <<>>,
         psutil     |-> "ok",
         size       |-> None,
         content    |-> 0,
         file_path  |-> NoOut,
         cutoff_time   |-> 0,
         cleaned_files |-> {},
         tts        |-> None,
         start_time |-> 0,
         i          |-> 0,
         item_start_time |-> 0,
         results    |-> <<>>,
         inference_time |-> 0,
         response   |-> NoBody,
         status     |-> 0,
         detail     |-> ""]

\* the handler of a request returns or raises: its locals are gone, the
\* request and the response stay
Return(q) == [q EXCEPT !.pc = "done", !.tts = None, !.start_time = 0, !.i = 0,
                       !.item_start_time = 0]

\* os.environ is a mapping from the names that are set to their values;
\* os.getenv(name, default) with the int()/float() conversion applied.
\* Fractions are counted in tenths (top_p 0.8 is 8).
getenv(environ, name, default) ==
    IF name \in DOMAIN environ THEN environ[name] ELSE default

\* {**d, **e}: the keys of both, a key of e taking e's value (d when e is
\* empty)
dict_update(d, e) ==
    IF DOMAIN e = {} THEN d
    ELSE [k \in DOMAIN d \cup DOMAIN e |-> IF k \in DOMAIN e THEN e[k] ELSE d[k]]

DEFAULT_TTS_PARAMS(environ) ==
    [max_text_tokens_per_sentence |-> getenv(environ, "MAX_TEXT_TOKENS", 120),
     do_sample          |-> TRUE,
     top_p              |-> getenv(environ, "TOP_P", 8),
     top_k              |-> getenv(environ, "TOP_K", 30),
     temperature        |-> getenv(environ, "TEMPERATURE", 10),
     length_penalty     |-> getenv(environ, "LENGTH_PENALTY", 0),
     num_beams          |-> getenv(environ, "NUM_BEAMS", 3),
     repetition_penalty |-> getenv(environ, "REPETITION_PENALTY", 100),
     max_mel_tokens     |-> getenv(environ, "MAX_MEL_TOKENS", 600)]

\* a dictionary display is filled from left to right: the two keys written
\* first, then **DEFAULT_TTS_PARAMS over them
DEFAULT_FAST_TTS_PARAMS(environ) ==
    dict_update(
        [max_text_tokens_per_sentence |-> getenv(environ, "FAST_MAX_TEXT_TOKENS", 100),
         sentences_bucket_max_size    |-> getenv(environ, "SENTENCES_BUCKET_SIZE", 4)],
        DEFAULT_TTS_PARAMS(environ))

\* get_config() for each of the given environments; environ is kept beside
\* the entries read from it
ConfigSetEnv(ceilings, cleanups, environs) ==
    {[max_concurrent_requests |-> c,
      request_timeout         |-> DEFAULT_REQUEST_TIMEOUT,
      max_file_size           |-> DEFAULT_MAX_FILE_SIZE,
      auto_cleanup            |-> a,
      max_file_age            |-> DEFAULT_MAX_FILE_AGE,
      default_tts_params      |-> DEFAULT_TTS_PARAMS(e),
      default_fast_tts_params |-> DEFAULT_FAST_TTS_PARAMS(e),
      environ                 |-> e] :
        c \in ceilings, a \in cleanups, e \in environs}

\* get_config() with none of the generation variables set
ConfigSet(ceilings, cleanups) == ConfigSetEnv(ceilings, cleanups, {<<>>})

InitWith(ceilings) ==
    /\ phase = "starting"
    /\ tts_instance = None
    /\ constructed = 0
    /\ stats = stats0
    /\ config \in ConfigSet(ceilings, {DEFAULT_AUTO_CLEANUP})
    /\ fs = {"uploads", RefExisting}
    /\ stat = stat0
    /\ uuid = 0
    /\ allocated = <<>>
    /\ now = 0
    /\ loop = 0
    /\ req = [r \in Req |-> req0]
    /\ calls = <<>>
    /\ recorded = [r \in Req |-> <<>>]
    /\ history = <<>>
    /\ lastInit = "none"

Init == InitWith({DEFAULT_MAX_CONCURRENT_REQUESTS})


\* ---------------------------------------------------------------- helpers
\* variant of ref_unusable that only tests whether a path was given
ref_unusable_absent_only(path, files) == path = NoPath

\* `not path or not os.path.exists(path)`
ref_unusable(path, files) == path = NoPath \/ path \notin files

\* payloads: /tts and /tts_fast carry one reference path, /batch_tts a list
\* of at most n (in a list the absent path is left out: the code treats it
\* as a missing file)
BatchItems(n) == UNION {[1..m -> {RefExisting, RefMissing}] : m \in 0..n}

Payloads(k, n) ==
    CASE k \in {"tts", "tts_fast"} -> IF n > 0 THEN {<<p>> : p \in RefPaths} ELSE {}
      [] k = "batch_tts"           -> BatchItems(n)
      [] OTHER                     -> {<<>>}

\* items carried by the requests issued so far
RECURSIVE ItemsUpTo(_, _)
ItemsUpTo(rq, n) == IF n = 0 THEN 0 ELSE Len(rq[n].items) + ItemsUpTo(rq, n - 1)

\* variant: a handler declared with a plain `def` runs in the thread pool
\* and can start whatever the event loop is doing
RunsInThreadPool(l) == TRUE

\* A handler declared `async def` is a coroutine of the event-loop thread:
\* it can start only when no other coroutine is running there.
RunsOnEventLoop(l) == l = 0

\* update_stats as called by the handler of request r
Record(r, success, response_time) ==
    /\ stats' = update_stats(stats, success, response_time)
    /\ recorded' = [recorded EXCEPT ![r] = Append(@, success)]
    /\ history' = Append(history, response_time)

\* ------------------------------------------------------------- life cycle
\* value of the global tts_instance after init_tts_model(): a new engine
\* when the constructor returns, the old value when it raises
init_tts_model(inst, n, ok) == IF ok THEN n + 1 ELSE inst

\* lifespan(), before the yield: the return value of init_tts_model is dropped
lifespan_startup ==
    /\ phase = "starting"
    /\ \E ok \in BOOLEAN :
        /\ tts_instance' = init_tts_model(tts_instance, constructed, ok)
        /\ constructed' = IF ok THEN constructed + 1 ELSE constructed
        /\ lastInit' = IF ok THEN "ok" ELSE "failed"
    /\ phase' = "serving"
    /\ UNCHANGED <<stats, config, disk, now, loop, req, calls, recorded, history>>

\* POST /init_model: init_tts_model() is a blocking call inside the coroutine
init_model(r) ==
    /\ req[r].kind = "init_model"
    /\ req[r].pc = "queued"
    /\ RunsOnEventLoop(loop)
    /\ \E ok \in BOOLEAN :
        /\ tts_instance' = init_tts_model(tts_instance, constructed, ok)
        /\ constructed' = IF ok THEN constructed + 1 ELSE constructed
        /\ lastInit' = IF ok THEN "ok" ELSE "failed"
        /\ req' = [req EXCEPT ![r] =
                     [Return(@) EXCEPT
                               !.status = IF ok THEN 200 ELSE 500,
                               !.detail = IF ok THEN "init ok" ELSE "init failed"]]
    /\ UNCHANGED <<phase, stats, config, disk, now, loop, calls, recorded, history>>

\* ---------------------------------------------------------------- arrival
\* TTSRequest / FastTTSRequest: a generation field the body leaves out takes
\* the Field default, read from config when the class was defined.  The
\* handler passes every field of the model to the engine by keyword.
RequestModel(k, given, cfg) ==
    dict_update(IF k = "tts_fast" THEN cfg.default_fast_tts_params
                ELSE cfg.default_tts_params,
                given)

\* Depends(get_tts_instance): the value handed to the handler as `tts`.
\* FastAPI resolves it before the handler body, outside the handler's try.
get_tts_instance(q, inst) ==
    IF inst = None
    THEN [Return(q) EXCEPT !.status = 503, !.detail = "model not initialised"]
    ELSE [q EXCEPT !.pc = "queued", !.tts = inst]

\* FastAPI builds the arguments of a synthesis handler: the dependency
\* first (503 when the engine is missing), then the body, whose violation of
\* a Field constraint is answered 422.  In both cases the handler is not
\* called.
solve_dependencies(q, inst) ==
    IF inst # None /\ ~valid_body(q.kind, q.texts)
    THEN [Return(q) EXCEPT !.status = 422, !.detail = "validation error"]
    ELSE get_tts_instance(q, inst)

\* A client issues request r (requests are numbered in arrival order) and
\* FastAPI prepares the call of its handler: a synthesis route resolves its
\* dependency, /init_model has none.  The handler coroutine then waits for
\* the event loop.
Arrive(r) ==
    /\ phase = "serving"
    /\ req[r].pc = "idle"
    /\ \A q \in Req : q < r => req[q].pc # "idle"
    /\ \E k \in Kinds : \E its \in Payloads(k, MaxItems - ItemsUpTo(req, MaxRequests)) :
        LET q == [req[r] EXCEPT !.kind = k, !.items = its,
                                !.texts = [i \in 1..Len(its) |-> Hello]] IN
        req' = [req EXCEPT ![r] =
                  IF k \in SynthKinds
                  THEN solve_dependencies(q, tts_instance)
                  ELSE [q EXCEPT !.pc = "queued"]]
    /\ UNCHANGED <<phase, tts_instance, constructed, stats, config, disk, now, loop,
                   calls, recorded, history, lastInit>>

\* ------------------------------------------------- /tts and /tts_fast
\* The two handlers have the same body but for the engine method they call
\* (infer / infer_fast) and the extra sentences_bucket_max_size argument.
EngineFn(k) == IF k = "tts_fast" THEN "infer_fast" ELSE "infer"

\* The handler from its first statement up to the engine call.  A missing
\* reference raises HTTPException(400) inside the try; the handler's own
\* `except Exception` catches it, records a failure and raises
\* HTTPException(500).  No time passes inside one step.
synth_begin(r) ==
    LET generate == req[r].out = NoOut
        out == IF generate THEN OutputFile(uuid) ELSE req[r].out
    IN
    /\ req[r].kind \in {"tts", "tts_fast"}
    /\ req[r].pc = "queued"
    /\ RunsOnEventLoop(loop)
    /\ fs' = IF generate THEN fs \cup {"outputs"} ELSE fs
    /\ uuid' = IF generate THEN uuid + 1 ELSE uuid
    /\ allocated' = IF generate
                    THEN Append(allocated, [path |-> PathOf(out),
                                            free |-> PathOf(out) \notin fs])
                    ELSE allocated
    /\ IF ref_unusable(req[r].items[1], fs)
       THEN /\ Record(r, FALSE, 0)
            /\ req' = [req EXCEPT ![r] =
                         [Return(@) EXCEPT
                                   !.out = out,
                                   !.status = 500,
                                   !.detail = "failed: 400: reference audio missing"]]
            /\ UNCHANGED <<loop, calls>>
       ELSE /\ req' = [req EXCEPT ![r] =
                         [@ EXCEPT !.pc = "infer", !.start_time = now, !.out = out]]
            /\ loop' = r
            /\ calls' = Append(calls, [req |-> r, index |-> 0, inst |-> req[r].tts,
                                       fn |-> EngineFn(req[r].kind),
                                       text |-> req[r].texts[1],
                                       kwargs |-> RequestModel(req[r].kind, req[r].given,
                                                              config)])
            /\ UNCHANGED <<stats, recorded, history>>
    /\ UNCHANGED <<phase, tts_instance, constructed, config, stat, now, lastInit>>

\* variant of synth_return after which the event loop is not given back
synth_return_keeps_loop(r) ==
    /\ req[r].pc = "infer"
    /\ Record(r, TRUE, now - req[r].start_time)
    /\ fs' = fs \cup {PathOf(req[r].out)}
    /\ stat' = WriteFile(stat, req[r].out, SmallSize, now)
    /\ req' = [req EXCEPT ![r] =
                 [Return(@) EXCEPT !.status = 200, !.detail = "ok",
                                   !.inference_time = now - req[r].start_time,
                                   !.response =
                                       SynthResponse(PathOf(req[r].out),
                                                     now - req[r].start_time,
                                                     req[r].texts[1],
                                                     "completed")]]
    /\ loop' = loop
    /\ UNCHANGED <<phase, tts_instance, constructed, config, uuid, allocated, now,
                   calls, lastInit>>

\* the engine call returns, having written the audio to output_path: success
\* recorded, 200
synth_return(r) ==
    /\ req[r].pc = "infer"
    /\ Record(r, TRUE, now - req[r].start_time)
    /\ fs' = fs \cup {PathOf(req[r].out)}
    /\ stat' = WriteFile(stat, req[r].out, SmallSize, now)
    /\ req' = [req EXCEPT ![r] =
                 [Return(@) EXCEPT !.status = 200, !.detail = "ok",
                                   !.inference_time = now - req[r].start_time,
                                   !.response =
                                       SynthResponse(PathOf(req[r].out),
                                                     now - req[r].start_time,
                                                     req[r].texts[1],
                                                     "completed")]]
    /\ loop' = 0
    /\ UNCHANGED <<phase, tts_instance, constructed, config, uuid, allocated, now,
                   calls, lastInit>>

\* variant of synth_raise whose except clause also discards the engine
synth_raise_drops_engine(r) ==
    /\ req[r].pc = "infer"
    /\ Record(r, FALSE, now - req[r].start_time)
    /\ req' = [req EXCEPT ![r] =
                 [Return(@) EXCEPT !.status = 500,
                                   !.detail = "failed: engine error"]]
    /\ loop' = 0
    /\ tts_instance' = None
    /\ UNCHANGED <<phase, constructed, config, disk, now, calls, lastInit>>

\* the `except Exception` clause after the engine raised (success is still False)
synth_raise(r) ==
    /\ req[r].pc = "infer"
    /\ Record(r, FALSE, now - req[r].start_time)
    /\ req' = [req EXCEPT ![r] =
                 [Return(@) EXCEPT !.status = 500,
                                   !.detail = "failed: engine error"]]
    /\ loop' = 0
    /\ UNCHANGED <<phase, tts_instance, constructed, config, disk, now, calls, lastInit>>

text_to_speech(r) ==
    /\ req[r].kind = "tts"
    /\ synth_begin(r) \/ synth_return(r) \/ synth_raise(r)

text_to_speech_fast(r) ==
    /\ req[r].kind = "tts_fast"
    /\ synth_begin(r) \/ synth_return(r) \/ synth_raise(r)


\* ------------------------------------------------------------ /batch_tts
\* entries appended to results
FailedEntry(i, error) == [index |-> i, success |-> FALSE, error |-> error]

SucceededEntry(i, output_path, inference_time, text) ==
    [index |-> i, success |-> TRUE, output_path |-> output_path,
     inference_time |-> inference_time, text_length |-> Len(text)]

\* start_time, results = [], outputs directory created
batch_begin(r) ==
    /\ req[r].kind = "batch_tts"
    /\ req[r].pc = "queued"
    /\ RunsOnEventLoop(loop)
    /\ req' = [req EXCEPT ![r] =
                 [@ EXCEPT !.pc = "batch", !.start_time = now, !.i = 0,
                           !.results = <<>>]]
    /\ loop' = r
    /\ fs' = fs \cup {"outputs"}
    /\ UNCHANGED <<phase, tts_instance, constructed, stats, config, stat, uuid,
                   allocated, now, calls, recorded, history, lastInit>>

\* variant of batch_item that leaves the loop at the first missing reference
batch_item_break(r) ==
    /\ req[r].pc = "batch"
    /\ req[r].i < Len(req[r].items)
    /\ uuid' = uuid + 1
    /\ allocated' = Append(allocated,
                           [path |-> PathOf(BatchOutputFile(uuid, req[r].i)),
                            free |-> PathOf(BatchOutputFile(uuid, req[r].i)) \notin fs])
    /\ IF ref_unusable(req[r].items[req[r].i + 1], fs)
       THEN /\ req' = [req EXCEPT ![r] =
                         [@ EXCEPT !.results = Append(@, FailedEntry(req[r].i,
                                                 "reference audio missing")),
                                   !.i = Len(req[r].items)]]
            /\ UNCHANGED calls
       ELSE /\ req' = [req EXCEPT ![r] =
                         [@ EXCEPT !.pc = "batch_infer", !.item_start_time = now,
                                   !.out = BatchOutputFile(uuid, req[r].i)]]
            /\ calls' = Append(calls, [req |-> r, index |-> req[r].i,
                                       inst |-> req[r].tts, fn |-> "infer",
                                       text |-> req[r].texts[req[r].i + 1],
                                       kwargs |-> RequestModel(req[r].kind, req[r].given,
                                                              config)])
    /\ UNCHANGED <<phase, tts_instance, constructed, stats, config, fs, stat, now,
                   loop, recorded, history, lastInit>>

\* one iteration of the for loop up to the engine call: an item without a
\* usable reference gets a failure entry and the loop continues
batch_item(r) ==
    /\ req[r].pc = "batch"
    /\ req[r].i < Len(req[r].items)
    /\ uuid' = uuid + 1
    /\ allocated' = Append(allocated,
                           [path |-> PathOf(BatchOutputFile(uuid, req[r].i)),
                            free |-> PathOf(BatchOutputFile(uuid, req[r].i)) \notin fs])
    /\ IF ref_unusable(req[r].items[req[r].i + 1], fs)
       THEN /\ req' = [req EXCEPT ![r] =
                         [@ EXCEPT !.results = Append(@, FailedEntry(req[r].i,
                                                 "reference audio missing")),
                                   !.i = @ + 1]]
            /\ UNCHANGED calls
       ELSE /\ req' = [req EXCEPT ![r] =
                         [@ EXCEPT !.pc = "batch_infer", !.item_start_time = now,
                                   !.out = BatchOutputFile(uuid, req[r].i)]]
            /\ calls' = Append(calls, [req |-> r, index |-> req[r].i,
                                       inst |-> req[r].tts, fn |-> "infer",
                                       text |-> req[r].texts[req[r].i + 1],
                                       kwargs |-> RequestModel(req[r].kind, req[r].given,
                                                              config)])
    /\ UNCHANGED <<phase, tts_instance, constructed, stats, config, fs, stat, now,
                   loop, recorded, history, lastInit>>

\* the item's engine call returns, having written the audio to output_path
batch_item_return(r) ==
    /\ req[r].pc = "batch_infer"
    /\ fs' = fs \cup {PathOf(req[r].out)}
    /\ stat' = WriteFile(stat, req[r].out, SmallSize, now)
    /\ req' = [req EXCEPT ![r] =
                 [@ EXCEPT !.pc = "batch",
                           !.results = Append(@, SucceededEntry(req[r].i,
                                                   PathOf(req[r].out),
                                                   now - req[r].item_start_time,
                                                   req[r].texts[req[r].i + 1])),
                           !.i = @ + 1]]
    /\ UNCHANGED <<phase, tts_instance, constructed, stats, config, uuid, allocated,
                   now, loop, calls, recorded, history, lastInit>>

\* variant of batch_item_raise that appends nothing
batch_item_raise_drops_entry(r) ==
    /\ req[r].pc = "batch_infer"
    /\ req' = [req EXCEPT ![r] = [@ EXCEPT !.pc = "batch", !.i = @ + 1]]
    /\ UNCHANGED <<phase, tts_instance, constructed, stats, config, disk, now, loop,
                   calls, recorded, history, lastInit>>

\* the item's engine call raises: the inner `except Exception` appends a
\* failure entry and the loop goes on
batch_item_raise(r) ==
    /\ req[r].pc = "batch_infer"
    /\ req' = [req EXCEPT ![r] =
                 [@ EXCEPT !.pc = "batch",
                           !.results = Append(@, FailedEntry(req[r].i, "engine error")),
                           !.i = @ + 1]]
    /\ UNCHANGED <<phase, tts_instance, constructed, stats, config, disk, now, loop,
                   calls, recorded, history, lastInit>>

\* after the loop: the one update_stats call of the handler, always success
batch_end(r) ==
    /\ req[r].pc = "batch"
    /\ req[r].i = Len(req[r].items)
    /\ Record(r, TRUE, now - req[r].start_time)
    /\ req' = [req EXCEPT ![r] =
                 [Return(@) EXCEPT !.status = 200, !.detail = "ok"]]
    /\ loop' = 0
    /\ UNCHANGED <<phase, tts_instance, constructed, config, disk, now, calls, lastInit>>

batch_text_to_speech(r) ==
    \/ batch_begin(r)
    \/ batch_item(r)
    \/ batch_item_return(r)
    \/ batch_item_raise(r)
    \/ batch_end(r)

\* ------------------------------------------------------------------ clock
\* Time is read only as a difference of two time.time() calls of one handler;
\* the statements of a handler that take time are its blocking engine calls.
Tick ==
    /\ now < MaxTime
    /\ \E r \in Req : req[r].pc \in {"infer", "batch_infer"}
    /\ now' = now + 1
    /\ UNCHANGED <<phase, tts_instance, constructed, stats, config, disk, loop, req,
                   calls, recorded, history, lastInit>>

\* ---------------------------------------------------------- specification
Next ==
    \/ lifespan_startup
    \/ Tick
    \/ \E r \in Req :
        \/ Arrive(r)
        \/ init_model(r)
        \/ text_to_speech(r)
        \/ text_to_speech_fast(r)
        \/ batch_text_to_speech(r)

Spec == Init /\ [][Next]_vars


\* ------------------------------------------- stats-only specification
\* update_stats driven on its own, past the capacity of the window: the
\* calls of a long run of requests, each numbered by its arrival so that
\* the order of the window and the evicted sample can be observed.
InitStats ==
    /\ phase = "serving"
    /\ tts_instance = 1
    /\ constructed = 1
    /\ stats = stats0
    /\ config \in ConfigSet({DEFAULT_MAX_CONCURRENT_REQUESTS}, {DEFAULT_AUTO_CLEANUP})
    /\ fs = {"uploads", RefExisting}
    /\ stat = stat0
    /\ uuid = 0
    /\ allocated = <<>>
    /\ now = 0
    /\ loop = 0
    /\ req = [r \in Req |-> req0]
    /\ calls = <<>>
    /\ recorded = [r \in Req |-> <<>>]
    /\ history = <<>>
    /\ lastInit = "ok"

RecordSample(success) ==
    /\ Len(history) < MaxRecords
    /\ stats' = update_stats(stats, success, Len(history))
    /\ history' = Append(history, Len(history))
    /\ UNCHANGED <<phase, tts_instance, constructed, config, disk, now, loop, req,
                   calls, recorded, lastInit>>

NextStats == \E success \in BOOLEAN : RecordSample(success)

SpecStats == InitStats /\ [][NextStats]_vars


\* the environment may set MAX_CONCURRENT_REQUESTS
InitEnv == InitWith(EnvMaxConcurrent)

SpecEnv == InitEnv /\ [][Next]_vars


\* ------------------------------------------- long engine calls
\* tts.infer / tts.infer_fast is a blocking call of unbounded duration: here
\* one that lasts longer than config["request_timeout"].
LongCall ==
    /\ now < MaxTime
    /\ \E r \in Req : req[r].pc \in {"infer", "batch_infer"}
    /\ now' = now + config.request_timeout + 1
    /\ UNCHANGED <<phase, tts_instance, constructed, stats, config, disk, loop, req,
                   calls, recorded, history, lastInit>>

NextTimeout == Next \/ LongCall

SpecTimeout == Init /\ [][NextTimeout]_vars


\* ------------------------------------------- shutdown
\* lifespan(), after the yield: the engine is released (`del tts_instance;
\* tts_instance = None`).  The server runs this part once it has stopped
\* accepting requests and the requests already accepted have been answered.
lifespan_shutdown ==
    /\ phase = "serving"
    /\ \A r \in Req : req[r].pc \in {"idle", "done"}
    /\ loop = 0
    /\ tts_instance' = None
    /\ phase' = "stopped"
    /\ UNCHANGED <<constructed, stats, config, disk, now, loop, req, calls, recorded,
                   history, lastInit>>

NextLifecycle == Next \/ lifespan_shutdown

SpecLifecycle == Init /\ [][NextLifecycle]_vars


\* ------------------------------------------- fair scheduling
\* The event loop runs every handler coroutine that is ready, and an engine
\* call that was started returns or raises: each step of a handler that
\* stays possible is eventually taken.
HandlerStep(r) ==
    \/ init_model(r)
    \/ text_to_speech(r)
    \/ text_to_speech_fast(r)
    \/ batch_text_to_speech(r)

SpecLive == Init /\ [][Next]_vars /\ \A r \in Req : WF_vars(HandlerStep(r))


\* ------------------------------------------- request-body specification
\* Synthesis requests with texts at and beyond the declared bounds, and a
\* batch one item longer than allowed, against a Ready engine.
Texts == {"", Hello, Repeat("a", MAX_TEXT_LENGTH), Repeat("a", MAX_TEXT_LENGTH + 1)}

BatchTexts ==
    {<<t>> : t \in Texts}
    \cup {<<Hello, t>> : t \in {"", Repeat("a", MAX_TEXT_LENGTH + 1)}}
    \cup {[i \in 1..(MAX_BATCH_ITEMS + 1) |-> Hello]}

Bodies(k) == IF k = "batch_tts" THEN BatchTexts ELSE {<<t>> : t \in Texts}

InitReady == InitStats

ArriveTexts(r) ==
    /\ req[r].pc = "idle"
    /\ \A q \in Req : q < r => req[q].pc # "idle"
    /\ \E k \in SynthKinds : \E txts \in Bodies(k) :
        req' = [req EXCEPT ![r] =
                  solve_dependencies([@ EXCEPT !.kind = k, !.texts = txts,
                                               !.items = [i \in 1..Len(txts) |-> RefExisting]],
                                     tts_instance)]
    /\ UNCHANGED <<phase, tts_instance, constructed, stats, config, disk, now, loop,
                   calls, recorded, history, lastInit>>

NextTexts ==
    \/ Tick
    \/ \E r \in Req :
        \/ ArriveTexts(r)
        \/ text_to_speech(r)
        \/ text_to_speech_fast(r)
        \/ batch_text_to_speech(r)

SpecTexts == InitReady /\ [][NextTexts]_vars

\* ------------------------------------------- reference audio
\* Synthesis requests with every kind of reference path (absent, existing,
\* missing), against a Ready engine.
ArriveRefs(r) ==
    /\ req[r].pc = "idle"
    /\ \A q \in Req : q < r => req[q].pc # "idle"
    /\ \E k \in SynthKinds : \E its \in Payloads(k, MaxItems - ItemsUpTo(req, MaxRequests)) :
        req' = [req EXCEPT ![r] =
                  solve_dependencies([@ EXCEPT !.kind = k, !.items = its,
                                               !.texts = [i \in 1..Len(its) |-> Hello]],
                                     tts_instance)]
    /\ UNCHANGED <<phase, tts_instance, constructed, stats, config, disk, now, loop,
                   calls, recorded, history, lastInit>>

NextRefs ==
    \/ Tick
    \/ \E r \in Req :
        \/ ArriveRefs(r)
        \/ text_to_speech(r)
        \/ text_to_speech_fast(r)
        \/ batch_text_to_speech(r)

SpecRefs == InitReady /\ [][NextRefs]_vars

\* ------------------------------------------- generation parameters
\* /tts and /tts_fast requests that set or leave out generation fields, in
\* services started under different environments.
EnvValues ==
    [MAX_TEXT_TOKENS |-> 150, FAST_MAX_TEXT_TOKENS |-> 80, SENTENCES_BUCKET_SIZE |-> 2]

Environs == {[n \in S |-> EnvValues[n]] : S \in SUBSET DOMAIN EnvValues}

\* values a client sets
GivenValues ==
    [max_text_tokens_per_sentence |-> 50, sentences_bucket_max_size |-> 8, top_k |-> 5]

\* the generation fields a body sets; sentences_bucket_max_size is a field
\* of FastTTSRequest only
Givens(k) ==
    {[f \in S |-> GivenValues[f]] :
        S \in SUBSET (IF k = "tts_fast" THEN DOMAIN GivenValues
                      ELSE DOMAIN GivenValues \ {"sentences_bucket_max_size"})}

InitParams ==
    /\ phase = "serving"
    /\ tts_instance = 1
    /\ constructed = 1
    /\ stats = stats0
    /\ config \in ConfigSetEnv({DEFAULT_MAX_CONCURRENT_REQUESTS}, {DEFAULT_AUTO_CLEANUP},
                               Environs)
    /\ fs = {"uploads", RefExisting}
    /\ stat = stat0
    /\ uuid = 0
    /\ allocated = <<>>
    /\ now = 0
    /\ loop = 0
    /\ req = [r \in Req |-> req0]
    /\ calls = <<>>
    /\ recorded = [r \in Req |-> <<>>]
    /\ history = <<>>
    /\ lastInit = "ok"

ArriveParams(r) ==
    /\ req[r].pc = "idle"
    /\ \A q \in Req : q < r => req[q].pc # "idle"
    /\ \E k \in {"tts", "tts_fast"} : \E g \in Givens(k) :
        req' = [req EXCEPT ![r] =
                  solve_dependencies([@ EXCEPT !.kind = k, !.given = g,
                                               !.items = <<RefExisting>>,
                                               !.texts = <<Hello>>],
                                     tts_instance)]
    /\ UNCHANGED <<phase, tts_instance, constructed, stats, config, disk, now, loop,
                   calls, recorded, history, lastInit>>

NextParams ==
    \/ Tick
    \/ \E r \in Req :
        \/ ArriveParams(r)
        \/ text_to_speech(r)
        \/ text_to_speech_fast(r)

SpecParams == InitParams /\ [][NextParams]_vars

\* ------------------------------------------------ artifact specification
\* The routes that touch the two artifact directories, against a Ready
\* engine: /upload_audio, /delete_audio, /cleanup_old_files and /tts.
\* the service starts one second after the oldest artifacts went out of age
StartTime == DEFAULT_MAX_FILE_AGE + 1

\* artifacts left by earlier runs: directory, name, st_ctime
OldArtifacts ==
    {[dir |-> "outputs", name |-> <<"old", ".", "wav">>,  st_ctime |-> 0],
     [dir |-> "outputs", name |-> <<"old", ".", "flac">>, st_ctime |-> 0],
     [dir |-> "uploads", name |-> <<"old", ".", "wav">>,  st_ctime |-> 0],
     [dir |-> "uploads", name |-> <<"edge", ".", "wav">>, st_ctime |-> 1],
     [dir |-> "uploads", name |-> <<"ref", ".", "wav">>,  st_ctime |-> StartTime]}

\* the disk of a first run, and the disk an earlier run left
Disks ==
    {[fs |-> {}, stat |-> <<>>],
     [fs |-> {"uploads", "outputs"} \cup {PathOf(a) : a \in OldArtifacts},
      stat |-> [p \in {PathOf(a) : a \in OldArtifacts} |->
                  LET a == CHOOSE b \in OldArtifacts : PathOf(b) = p
                  IN  [dir |-> a.dir, name |-> a.name, size |-> SmallSize,
                       st_ctime |-> a.st_ctime]]]}

InitFiles ==
    /\ phase = "serving"
    /\ tts_instance = 1
    /\ constructed = 1
    /\ stats = stats0
    /\ config \in ConfigSet({DEFAULT_MAX_CONCURRENT_REQUESTS}, BOOLEAN)
    /\ \E d \in Disks : fs = d.fs /\ stat = d.stat
    /\ uuid = 0
    /\ allocated = <<>>
    /\ now = StartTime
    /\ loop = 0
    /\ req = [r \in Req |-> req0]
    /\ calls = <<>>
    /\ recorded = [r \in Req |-> <<>>]
    /\ history = <<>>
    /\ lastInit = "ok"

\* UploadFile: declared filename, bytes of content, and file.size, which is
\* the content length or not reported (None)
Uploads ==
    {[filename |-> n, content |-> SmallSize, size |-> SmallSize] :
        n \in {<<"a", ".", "WAV">>, <<"a", ".", "txt">>, <<".", "wav">>}}
    \cup
    {[filename |-> <<"a", ".", "WAV">>, content |-> DEFAULT_MAX_FILE_SIZE + 1, size |-> z] :
        z \in {DEFAULT_MAX_FILE_SIZE + 1, None}}

\* /delete_audio/{filename}
DeleteNames ==
    {<<"old", ".", "wav">>, <<"missing", ".", "wav">>,
     <<"..", "/", "uploads", "/", "ref", ".", "wav">>}

\* A client issues request r to one of the artifact routes; /tts resolves
\* its dependency as in Arrive.
ArriveFiles(r) ==
    /\ req[r].pc = "idle"
    /\ \A q \in Req : q < r => req[q].pc # "idle"
    /\ \/ \E u \in Uploads :
            req' = [req EXCEPT ![r] =
                      [@ EXCEPT !.kind = "upload", !.pc = "queued",
                                !.filename = u.filename, !.content = u.content,
                                !.size = u.size]]
       \/ \E n \in DeleteNames :
            req' = [req EXCEPT ![r] =
                      [@ EXCEPT !.kind = "delete", !.pc = "queued", !.filename = n]]
       \/ req' = [req EXCEPT ![r] = [@ EXCEPT !.kind = "cleanup", !.pc = "queued"]]
       \/ req' = [req EXCEPT ![r] =
                    solve_dependencies([@ EXCEPT !.kind = "tts",
                                                 !.items = <<RefExisting>>,
                                                 !.texts = <<Hello>>],
                                       tts_instance)]
    /\ UNCHANGED <<phase, tts_instance, constructed, stats, config, disk, now, loop,
                   calls, recorded, history, lastInit>>

\* upload_audio from its first statement to `await file.read()`.  A refused
\* extension or size raises HTTPException(400) inside the try; the handler's
\* own `except Exception` records a failure and raises HTTPException(500).
upload_begin(r) ==
    /\ req[r].kind = "upload"
    /\ req[r].pc = "queued"
    /\ RunsOnEventLoop(loop)
    /\ IF lower(suffix(req[r].filename)) \notin ALLOWED_AUDIO_FORMATS
       THEN /\ Record(r, FALSE, 0)
            /\ req' = [req EXCEPT ![r] =
                         [Return(@) EXCEPT !.status = 500,
                                           !.detail = "failed: 400: format not supported"]]
            /\ UNCHANGED disk
       ELSE IF req[r].size # None /\ req[r].size > config.max_file_size
       THEN /\ Record(r, FALSE, 0)
            /\ req' = [req EXCEPT ![r] =
                         [Return(@) EXCEPT !.status = 500,
                                           !.detail = "failed: 400: file too large"]]
            /\ UNCHANGED disk
       ELSE /\ fs' = fs \cup {"uploads"}
            /\ uuid' = uuid + 1
            /\ allocated' = Append(allocated,
                   [path |-> PathOf(UploadPath(uuid, req[r].filename)),
                    free |-> PathOf(UploadPath(uuid, req[r].filename)) \notin fs])
            /\ req' = [req EXCEPT ![r] =
                         [@ EXCEPT !.pc = "reading", !.start_time = now,
                                   !.file_path = UploadPath(uuid, req[r].filename)]]
            /\ UNCHANGED <<stat, stats, recorded, history>>
    /\ UNCHANGED <<phase, tts_instance, constructed, config, now, loop, calls, lastInit>>

\* upload_audio after file.read() has delivered the content: the file is
\* written, a success recorded, 200.  While the coroutine waited for the
\* content the event loop was free for other handlers.
upload_write(r) ==
    /\ req[r].pc = "reading"
    /\ RunsOnEventLoop(loop)
    /\ fs' = fs \cup {PathOf(req[r].file_path)}
    /\ stat' = WriteFile(stat, req[r].file_path, req[r].content, now)
    /\ Record(r, TRUE, now - req[r].start_time)
    /\ req' = [req EXCEPT ![r] = [Return(@) EXCEPT !.status = 200, !.detail = "ok"]]
    /\ UNCHANGED <<phase, tts_instance, constructed, config, uuid, allocated, now,
                   loop, calls, lastInit>>

upload_audio(r) == upload_begin(r) \/ upload_write(r)

\* delete_audio_file: HTTPException(404) is raised inside the try and caught
\* by the handler's own `except Exception`, which raises HTTPException(500).
delete_audio_file(r) ==
    LET file_path == OutputsFile(req[r].filename, fs) IN
    /\ req[r].kind = "delete"
    /\ req[r].pc = "queued"
    /\ RunsOnEventLoop(loop)
    /\ IF PathOf(file_path) \notin fs
       THEN /\ req' = [req EXCEPT ![r] =
                         [Return(@) EXCEPT !.status = 500,
                                           !.detail = "failed: 404: file not found"]]
            /\ UNCHANGED <<fs, stat>>
       ELSE /\ fs' = fs \ {PathOf(file_path)}
            /\ stat' = [p \in DOMAIN stat \ {PathOf(file_path)} |-> stat[p]]
            /\ req' = [req EXCEPT ![r] = [Return(@) EXCEPT !.status = 200, !.detail = "ok"]]
    /\ UNCHANGED <<phase, tts_instance, constructed, stats, config, uuid, allocated,
                   now, loop, calls, recorded, history, lastInit>>

\* variant of cutoff_time that takes every file written before now as old
cutoff_time_now(t, max_file_age) == t

\* cutoff_time = time.time() - config["max_file_age"]
cutoff_time(t, max_file_age) == t - max_file_age

\* the files the two loops of cleanup_old_files visit: outputs/*.wav and
\* uploads/*, each directory only if it exists
Scanned(files, st) ==
    {p \in DOMAIN st :
        \/ st[p].dir = "outputs" /\ "outputs" \in files /\ glob_wav(st[p].name)
        \/ st[p].dir = "uploads" /\ "uploads" \in files}

\* cleanup_old_files: one handler run, without an await.  With auto_cleanup
\* off, HTTPException(400) is raised inside the try and answered as 500.
\* stat() and unlink() are called on each entry with no handler of their
\* own: the operating system may refuse one (a file held open or read-only,
\* a directory among uploads/*), and the OSError then ends the run at that
\* entry.  The outputs loop is over by the time the uploads loop starts, and
\* glob yields the entries of one directory in no particular order, so any
\* part of the refused entry's directory may be gone already; the handler's
\* except answers 500 and the list built so far is dropped.
cleanup_old_files(r) ==
    LET cutoff  == cutoff_time(now, config.max_file_age)
        removed == {p \in Scanned(fs, stat) : stat[p].st_ctime < cutoff}
    IN
    /\ req[r].kind = "cleanup"
    /\ req[r].pc = "queued"
    /\ RunsOnEventLoop(loop)
    /\ IF ~config.auto_cleanup
       THEN /\ req' = [req EXCEPT ![r] =
                         [Return(@) EXCEPT !.status = 500,
                                           !.detail = "failed: 400: cleanup disabled"]]
            /\ UNCHANGED <<fs, stat>>
       ELSE \/ /\ fs' = fs \ removed
               /\ stat' = [p \in DOMAIN stat \ removed |-> stat[p]]
               /\ req' = [req EXCEPT ![r] =
                            [Return(@) EXCEPT !.status = 200, !.detail = "ok",
                                              !.cutoff_time = cutoff,
                                              !.cleaned_files = removed]]
            \/ \E refused \in removed :
               \E before \in SUBSET {p \in removed \ {refused} :
                                        stat[p].dir = stat[refused].dir} :
                  LET gone == before \cup
                              {p \in removed : /\ stat[p].dir = "outputs"
                                               /\ stat[refused].dir = "uploads"}
                  IN  /\ fs' = fs \ gone
                      /\ stat' = [p \in DOMAIN stat \ gone |-> stat[p]]
                      /\ req' = [req EXCEPT ![r] =
                                   [Return(@) EXCEPT !.status = 500,
                                                     !.detail = "failed: OSError",
                                                     !.cutoff_time = cutoff]]
    /\ UNCHANGED <<phase, tts_instance, constructed, stats, config, uuid, allocated,
                   now, loop, calls, recorded, history, lastInit>>

\* time passes between two steps of the service
Elapse ==
    /\ now < StartTime + MaxTime
    /\ now' = now + 1
    /\ UNCHANGED <<phase, tts_instance, constructed, stats, config, disk, loop, req,
                   calls, recorded, history, lastInit>>

NextFiles ==
    \/ Elapse
    \/ \E r \in Req :
        \/ ArriveFiles(r)
        \/ upload_audio(r)
        \/ delete_audio_file(r)
        \/ cleanup_old_files(r)
        \/ text_to_speech(r)

SpecFiles == InitFiles /\ [][NextFiles]_vars


\* ------------------------------------------- read-only operations
\* /health, /stats, /list_audio_files and /download, each a handler without
\* an await.

\* tts_instance.device of the engine the service constructed
DeviceOf(inst) == "cuda:0"

\* outcomes of `import psutil` in health_check
PsutilOutcomes == {"ok", "ImportError"}

\* health_check: `import psutil` is the first statement, before the try
\* whose `except ImportError` covers only the use of the module; an
\* ImportError there leaves the handler and is answered 500.
health_check(r) ==
    /\ req[r].kind = "health"
    /\ req[r].pc = "queued"
    /\ RunsOnEventLoop(loop)
    /\ req' = [req EXCEPT ![r] =
                 IF req[r].psutil = "ImportError"
                 THEN [Return(@) EXCEPT !.status = 500,
                                        !.detail = "Internal Server Error"]
                 ELSE [Return(@) EXCEPT
                         !.status = 200, !.detail = "ok",
                         !.response =
                             [status       |-> "healthy",
                              model_loaded |-> tts_instance # None,
                              device       |-> IF tts_instance # None
                                               THEN DeviceOf(tts_instance)
                                               ELSE "unknown",
                              uptime       |-> now - StartTime,
                              memory_usage |-> "rss, vms, percent"]]]
    /\ UNCHANGED <<phase, tts_instance, constructed, stats, config, disk, now, loop,
                   calls, recorded, history, lastInit>>

RECURSIVE Sum(_)
Sum(times) == IF times = <<>> THEN 0 ELSE Head(times) + Sum(Tail(times))

\* round(n / d, 3) in thousandths: the nearest thousandth, a tie to the even
\* one
round3(n, d) ==
    LET q == (1000 * n) \div d
        m == (1000 * n) % d
    IN  IF 2 * m > d \/ (2 * m = d /\ q % 2 = 1) THEN q + 1 ELSE q

\* variant of average_response_time that divides by the window capacity
average_over_capacity(times) ==
    IF times = <<>> THEN 0 ELSE round3(Sum(times), WindowCap)

\* avg_response_time of get_stats, rounded as the response reports it, in
\* thousandths of a second
average_response_time(times) ==
    IF times = <<>> THEN 0 ELSE round3(Sum(times), Len(times))

\* the files outputs/*.wav, none if the directory does not exist
OutputWavs(files, st) ==
    {p \in DOMAIN st :
        st[p].dir = "outputs" /\ "outputs" \in files /\ glob_wav(st[p].name)}

\* variant of get_stats that records itself as a served request
get_stats_recorded(r) ==
    /\ req[r].kind = "stats"
    /\ req[r].pc = "queued"
    /\ RunsOnEventLoop(loop)
    /\ req' = [req EXCEPT ![r] =
                 [Return(@) EXCEPT
                    !.status = 200, !.detail = "ok",
                    !.response =
                        [total_requests        |-> stats.total_requests,
                         successful_requests   |-> stats.successful_requests,
                         failed_requests       |-> stats.failed_requests,
                         average_response_time |->
                             average_response_time(stats.response_times),
                         total_audio_files     |->
                             Cardinality(OutputWavs(fs, stat))]]]
    /\ Record(r, TRUE, 0)
    /\ UNCHANGED <<phase, tts_instance, constructed, config, disk, now, loop, calls,
                   lastInit>>

\* get_stats: reads the counters and the window of the one stats dictionary
get_stats(r) ==
    /\ req[r].kind = "stats"
    /\ req[r].pc = "queued"
    /\ RunsOnEventLoop(loop)
    /\ req' = [req EXCEPT ![r] =
                 [Return(@) EXCEPT
                    !.status = 200, !.detail = "ok",
                    !.response =
                        [total_requests        |-> stats.total_requests,
                         successful_requests   |-> stats.successful_requests,
                         failed_requests       |-> stats.failed_requests,
                         average_response_time |->
                             average_response_time(stats.response_times),
                         total_audio_files     |->
                             Cardinality(OutputWavs(fs, stat))]]]
    /\ UNCHANGED <<phase, tts_instance, constructed, stats, config, disk, now, loop,
                   calls, recorded, history, lastInit>>

\* the record list_audio_files builds for the file at path p
FileRecord(st, p) ==
    [filename     |-> Join(st[p].name),
     size         |-> st[p].size,
     created_time |-> st[p].st_ctime,
     download_url |-> "/download/" \o Join(st[p].name)]

\* the orders in which the records can be listed
Arrangements(recs) ==
    {f \in [1..Cardinality(recs) -> recs] :
        \A i, j \in 1..Cardinality(recs) : i # j => f[i] # f[j]}

\* variant of sort_by_created_time that sorts oldest first
sort_oldest_first(recs) ==
    {f \in Arrangements(recs) :
        \A i \in 1..(Len(f) - 1) : f[i].created_time <= f[i + 1].created_time}

\* files.sort(key=created_time, reverse=True): glob yields the files in
\* directory order, so files of equal time come out in either order
sort_by_created_time(recs) ==
    {f \in Arrangements(recs) :
        \A i \in 1..(Len(f) - 1) : f[i].created_time >= f[i + 1].created_time}

list_audio_files(r) ==
    /\ req[r].kind = "list"
    /\ req[r].pc = "queued"
    /\ RunsOnEventLoop(loop)
    /\ \E files \in sort_by_created_time({FileRecord(stat, p) : p \in OutputWavs(fs, stat)}) :
          req' = [req EXCEPT ![r] =
                    [Return(@) EXCEPT !.status = 200, !.detail = "ok",
                                      !.response = [files |-> files]]]
    /\ UNCHANGED <<phase, tts_instance, constructed, stats, config, disk, now, loop,
                   calls, recorded, history, lastInit>>

\* download_audio: HTTPException(404) is raised outside any try
download_audio(r) ==
    LET file_path == OutputsFile(req[r].filename, fs) IN
    /\ req[r].kind = "download"
    /\ req[r].pc = "queued"
    /\ RunsOnEventLoop(loop)
    /\ req' = [req EXCEPT ![r] =
                 IF PathOf(file_path) \notin fs
                 THEN [Return(@) EXCEPT !.status = 404, !.detail = "file not found"]
                 ELSE [Return(@) EXCEPT !.status = 200, !.detail = "ok",
                                        !.response = [path |-> PathOf(file_path)]]]
    /\ UNCHANGED <<phase, tts_instance, constructed, stats, config, disk, now, loop,
                   calls, recorded, history, lastInit>>

\* the counters after three earlier requests, of 1, 0 and 0 seconds
StatsAfterThree ==
    update_stats(update_stats(update_stats(stats0, TRUE, 1), TRUE, 0), FALSE, 0)

\* a first start whose engine failed to load, or a later start with the
\* engine loaded, requests served and artifacts on disk
InitOps ==
    /\ phase = "serving"
    /\ \/ /\ tts_instance = None /\ constructed = 0 /\ lastInit = "failed"
          /\ stats = stats0 /\ history = <<>>
          /\ fs = {} /\ stat = <<>>
       \/ /\ tts_instance = 1 /\ constructed = 1 /\ lastInit = "ok"
          /\ stats = StatsAfterThree /\ history = <<1, 0, 0>>
          /\ \E d \in Disks : d.fs # {} /\ fs = d.fs /\ stat = d.stat
    /\ config \in ConfigSet({DEFAULT_MAX_CONCURRENT_REQUESTS}, BOOLEAN)
    /\ uuid = 0
    /\ allocated = <<>>
    /\ now = StartTime
    /\ loop = 0
    /\ req = [r \in Req |-> req0]
    /\ calls = <<>>
    /\ recorded = [r \in Req |-> <<>>]

ArriveOps(r) ==
    /\ req[r].pc = "idle"
    /\ \A q \in Req : q < r => req[q].pc # "idle"
    /\ \/ \E o \in PsutilOutcomes :
            req' = [req EXCEPT ![r] =
                      [@ EXCEPT !.kind = "health", !.pc = "queued", !.psutil = o]]
       \/ \E k \in {"stats", "list", "cleanup"} :
            req' = [req EXCEPT ![r] = [@ EXCEPT !.kind = k, !.pc = "queued"]]
       \/ \E k \in {"download", "delete"} : \E n \in DeleteNames :
            req' = [req EXCEPT ![r] =
                      [@ EXCEPT !.kind = k, !.pc = "queued", !.filename = n]]
       \/ req' = [req EXCEPT ![r] =
                    solve_dependencies([@ EXCEPT !.kind = "tts",
                                                 !.items = <<RefExisting>>,
                                                 !.texts = <<Hello>>],
                                       tts_instance)]
    /\ UNCHANGED <<phase, tts_instance, constructed, stats, config, disk, now, loop,
                   calls, recorded, history, lastInit>>

NextOps ==
    \/ Elapse
    \/ \E r \in Req :
        \/ ArriveOps(r)
        \/ health_check(r)
        \/ get_stats(r)
        \/ list_audio_files(r)
        \/ download_audio(r)
        \/ delete_audio_file(r)
        \/ cleanup_old_files(r)
        \/ text_to_speech(r)

SpecOps == InitOps /\ [][NextOps]_vars

\* ================================================================= claims
SynthReqs == {r \in Req : req[r].kind \in SynthKinds}

\* requests inside an engine call
Executing == {r \in Req : req[r].pc \in {"infer", "batch_infer"}}

\* requests admitted (past the readiness check) and not yet answered
InFlight == {r \in SynthReqs : req[r].pc \in {"queued", "infer", "batch", "batch_infer"}}

\* the engine calls of request r, in the order they were started
CallsOf(r) == SelectSeq(calls, LAMBDA c : c.req = r)

CallIndices(r) == [k \in 1..Len(CallsOf(r)) |-> CallsOf(r)[k].index]

\* items of batch r the loop has gone past (or is at, inside the engine)
Processed(r) ==
    CASE req[r].pc = "batch"       -> req[r].i
      [] req[r].pc = "batch_infer" -> req[r].i + 1
      [] req[r].pc = "done"        -> IF req[r].status = 200 THEN Len(req[r].items) ELSE 0
      [] OTHER                     -> 0

\* indices below n of the items of r whose reference audio exists, in order
UsableBelow(r, n) ==
    SelectSeq([k \in 1..n |-> k - 1],
              LAMBDA j : ~(req[r].items[j + 1] = NoPath \/ req[r].items[j + 1] \notin fs))

\* C1: at most one engine synthesis call (infer or infer_fast, batch items
\* included) is executing at any instant.
C1_AtMostOneEngineCall == Cardinality(Executing) <= 1

\* an engine call is executing while another admitted synthesis request waits
C1_Witness ==
    \E r \in Req, q \in Req :
        /\ r # q
        /\ r \in Executing
        /\ q \in SynthReqs
        /\ req[q].pc = "queued"

\* C2 (as claimed): a synthesis request issued while the engine is not Ready
\* is answered 503 without an engine call, and records exactly one failure.
C2_NotReadyRecordsOneFailure ==
    \A r \in SynthReqs :
        req[r].status = 503 => /\ CallsOf(r) = <<>>
                               /\ recorded[r] = <<FALSE>>

\* C3: an admitted batch of N items returns exactly N entries, entry k
\* carrying index k, whatever items fail; while the loop runs, one entry per
\* item already handled.
C3_BatchResultsIndexed ==
    \A r \in Req :
        req[r].kind = "batch_tts" /\ req[r].pc \in {"batch", "done"} =>
            /\ Len(req[r].results) = Processed(r)
            /\ \A k \in 1..Len(req[r].results) : req[r].results[k].index = k - 1

\* a finished batch holding a success, a missing reference and an engine failure
C3_Witness ==
    \E r \in Req :
        /\ req[r].kind = "batch_tts" /\ req[r].pc = "done" /\ req[r].status = 200
        /\ Len(req[r].results) = Len(req[r].items)
        /\ \E a, b, c \in 1..Len(req[r].results) :
            /\ req[r].results[a].success
            /\ ~req[r].results[b].success /\ req[r].results[b].error = "reference audio missing"
            /\ ~req[r].results[c].success /\ req[r].results[c].error = "engine error"

\* C4: in a batch every item whose reference audio exists is submitted to
\* the engine exactly once, in input order, whatever happened to the items
\* before it.
C4_BatchContinuesInOrder ==
    \A r \in Req :
        req[r].kind = "batch_tts" => CallIndices(r) = UsableBelow(r, Processed(r))

\* a batch whose first item had no reference, whose second made the engine
\* raise, and whose third was still submitted
C4_Witness ==
    \E r \in Req :
        /\ req[r].kind = "batch_tts" /\ Len(req[r].items) = 3
        /\ Len(req[r].results) >= 2
        /\ ~req[r].results[1].success
        /\ req[r].results[1].error = "reference audio missing"
        /\ ~req[r].results[2].success
        /\ req[r].results[2].error = "engine error"
        /\ CallIndices(r) = <<1, 2>>

\* C5 (as claimed): /tts with an absent or non-existing reference is answered
\* with the InvalidInput kind (400), and records one failure and no success.
C5_MissingReferenceIsInvalidInput ==
    \A r \in Req :
        (/\ req[r].kind = "tts" /\ req[r].pc = "done" /\ req[r].status # 503
         /\ (req[r].items[1] = NoPath \/ req[r].items[1] \notin fs))
        => /\ req[r].status = 400
           /\ recorded[r] = <<FALSE>>

\* C6 (as claimed, for the requests the handler ran for): the request is
\* recorded once, and a batch records each of its items as well, each with
\* its own success flag.
C6_BatchItemsRecorded ==
    \A r \in SynthReqs :
        req[r].pc = "done" /\ req[r].status # 503 =>
            IF req[r].kind = "batch_tts"
            THEN /\ Len(recorded[r]) = 1 + Len(req[r].items)
                 /\ \A k \in 1..Len(req[r].items) :
                        recorded[r][k] = req[r].results[k].success
            ELSE Len(recorded[r]) = 1

\* C7: the window never holds more than 1000 samples and is always the last
\* min(n, 1000) samples recorded, in arrival order.
C7_WindowIsLastSamples ==
    /\ Len(stats.response_times) <= WindowCap
    /\ stats.response_times = IF Len(history) <= WindowCap
                              THEN history
                              ELSE LastN(history, WindowCap)

\* 1001 samples recorded: the window is full and the first sample is gone
C7_Witness ==
    /\ Len(history) = WindowCap + 1
    /\ Len(stats.response_times) = WindowCap
    /\ \A k \in 1..Len(stats.response_times) : stats.response_times[k] # history[1]
    /\ stats.response_times[WindowCap] = history[WindowCap + 1]

\* C8: when the engine raises in /tts or /tts_fast the request is answered
\* with the handler's error (500), one failure is recorded for it, the
\* global engine is the same Ready instance as before and the event loop is
\* free for the next request.
C8_EngineFailureContained ==
    [][\A r \in Req :
          (req[r].pc = "infer" /\ req'[r].pc = "done" /\ req'[r].status # 200) =>
              /\ req'[r].status = 500
              /\ req'[r].detail = "failed: engine error"
              /\ recorded'[r] = <<FALSE>>
              /\ stats'.failed_requests = stats.failed_requests + 1
              /\ stats'.successful_requests = stats.successful_requests
              /\ tts_instance' = tts_instance
              /\ tts_instance' # None
              /\ loop' = 0]_vars

\* a request admitted after the engine raised for an earlier one, and whose
\* engine call was made on the same instance and returned
C8_Witness ==
    \E r \in Req, q \in Req :
        /\ req[r].pc = "done" /\ req[r].detail = "failed: engine error"
        /\ r < q
        /\ req[q].kind \in {"tts", "tts_fast"}
        /\ req[q].pc = "done" /\ req[q].status = 200
        /\ \E a, b \in 1..Len(calls) :
            /\ a < b
            /\ calls[a].req = r /\ calls[b].req = q
            /\ calls[a].inst = calls[b].inst

\* C9 (as claimed): after a failed initialize attempt the handle is not Ready.
C9_FailedInitLeavesNotReady == lastInit = "failed" => tts_instance = None

\* C10 (as claimed): the synthesis requests in flight never exceed
\* max_concurrent_requests.
C10_CeilingRespected == Cardinality(InFlight) <= config.max_concurrent_requests


\* C11 (as claimed): a request whose engine call lasts longer than the
\* configured request timeout is not left unanswered past the timeout, and
\* is not answered as a success.
C11_TimeoutEnforced ==
    \A r \in Req :
        /\ req[r].pc = "infer" => now - req[r].start_time <= config.request_timeout
        /\ req[r].pc = "done" /\ req[r].status = 200 /\ req[r].kind \in {"tts", "tts_fast"}
               => req[r].inference_time <= config.request_timeout

\* C12 (as claimed): admitted synthesis requests reach the engine in arrival
\* order: while an earlier admitted request that has something to synthesise
\* still waits, no later request has started an engine call.
C12_FifoOrder ==
    \A a \in SynthReqs, b \in SynthReqs :
        (/\ a < b
         /\ req[a].pc = "queued"
         /\ \E k \in 1..Len(req[a].items) : ~ref_unusable(req[a].items[k], fs))
        => CallsOf(b) = <<>>

\* C13: under fair scheduling every admitted synthesis request is eventually
\* answered, however many others are served before it.
C13_EveryRequestAnswered ==
    \A r \in Req : (r \in InFlight) ~> (req[r].pc = "done" /\ req[r].status # 0)

\* two synthesis requests were in flight together, the later one was served
\* first, and both have been answered with their audio
C13_Witness ==
    \E a \in SynthReqs, b \in SynthReqs :
        /\ a < b
        /\ req[a].pc = "done" /\ req[a].status = 200
        /\ req[b].pc = "done" /\ req[b].status = 200
        /\ \E i \in 1..Len(calls), j \in 1..Len(calls) :
              i < j /\ calls[i].req = b /\ calls[j].req = a

\* uploads whose handler has finished
UploadsDone == {r \in Req : req[r].kind = "upload" /\ req[r].pc = "done"}

\* request r is a cleanup whose handler runs in this step
CleanupRuns(r) ==
    /\ req[r].kind = "cleanup"
    /\ req[r].pc = "queued"
    /\ req'[r].pc = "done"

\* seconds since the file at path p was created
Age(p) == now - stat[p].st_ctime

\* C14 (as claimed): an upload whose extension, lower-cased, is outside the
\* allowed formats is answered with the InvalidInput kind (400).
C14_BadExtensionIsInvalidInput ==
    \A r \in UploadsDone :
        lower(suffix(req[r].filename)) \notin ALLOWED_AUDIO_FORMATS
            => req[r].status = 400

\* C15 (as claimed): no file of the uploads directory is larger than the
\* configured maximum upload size.
C15_NoOversizeUploadStored ==
    \A p \in DOMAIN stat :
        stat[p].dir = "uploads" => stat[p].size <= config.max_file_size

\* C16: every generated path (output of a request without output_path,
\* stored upload) was free when it was generated and differs from every
\* path generated before it.
C16_GeneratedNamesUnique ==
    /\ \A i \in 1..Len(allocated) : allocated[i].free
    /\ \A i \in 1..Len(allocated), j \in 1..Len(allocated) :
          i < j => allocated[i].path # allocated[j].path

\* two uploads with the same declared name were in flight together and both
\* are stored, each in its own file
C16_Witness ==
    \E a \in UploadsDone, b \in UploadsDone :
        /\ a < b
        /\ req[a].status = 200 /\ req[b].status = 200
        /\ req[a].filename = req[b].filename
        /\ PathOf(req[a].file_path) # PathOf(req[b].file_path)
        /\ {PathOf(req[a].file_path), PathOf(req[b].file_path)} \subseteq fs
        /\ stat[PathOf(req[a].file_path)].st_ctime > stat[PathOf(req[b].file_path)].st_ctime

\* C17 (as claimed): with auto-cleanup disabled, cleanup_old_files removes
\* nothing and its answer is not the one of an internal failure (500).
C17_DisabledCleanupReported ==
    \A r \in Req :
        req[r].kind = "cleanup" /\ req[r].pc = "done" /\ ~config.auto_cleanup
            => /\ req[r].cleaned_files = {}
               /\ req[r].status # 500

\* C18 (as claimed): with auto-cleanup enabled, a run of cleanup_old_files
\* removes a file of uploads or outputs if and only if its age is at least
\* max_file_age, whatever its name.
C18_RemovedIffOldEnough ==
    [][\A r \in Req :
          CleanupRuns(r) /\ config.auto_cleanup =>
              \A p \in DOMAIN stat :
                  stat[p].dir \in {"uploads", "outputs"} =>
                      ((p \notin fs') <=> (Age(p) >= config.max_file_age))]_vars

\* C19: a run of cleanup_old_files, whatever uploads and syntheses are in
\* flight, leaves every file younger than max_file_age in place and
\* untouched.
C19_CleanupSparesYoungFiles ==
    [][\A r \in Req :
          CleanupRuns(r) =>
              \A p \in DOMAIN stat :
                  Age(p) < config.max_file_age =>
                      p \in fs' /\ p \in DOMAIN stat' /\ stat'[p] = stat[p]]_vars

\* a cleanup has removed old files while an upload that began before it was
\* still waiting for its content, and the young reference audio is in place
C19_Witness ==
    \E r \in Req, q \in Req :
        /\ req[r].kind = "upload" /\ req[r].pc = "reading"
        /\ req[q].kind = "cleanup" /\ req[q].pc = "done" /\ req[q].status = 200
        /\ req[q].cleaned_files # {}
        /\ req[r].start_time < req[q].cutoff_time + config.max_file_age
        /\ RefExisting \in fs

\* C20 (as claimed): delete_audio is answered success (200) or NotFound
\* (404), never with a generic internal error.
C20_DeleteNotFound ==
    \A r \in Req :
        req[r].kind = "delete" /\ req[r].pc = "done" => req[r].status \in {200, 404}

\* /tts and /tts_fast requests answered 200
SynthAnswered ==
    {r \in Req : req[r].kind \in {"tts", "tts_fast"} /\ req[r].pc = "done"
                 /\ req[r].status = 200}

\* C21: a /tts or /tts_fast request without output_path that the engine
\* served is answered success = true, with an output path directly under
\* outputs, inference_time >= 0, text_length = number of characters of its
\* text, and no error field.
C21_SynthesisResponse ==
    \A r \in SynthAnswered :
        /\ req[r].response.success
        /\ req[r].out.dir = "outputs"
        /\ req[r].response.output_path = "outputs/" \o Join(req[r].out.name)
        /\ \A i \in 1..Len(req[r].out.name) : req[r].out.name[i] # "/"
        /\ req[r].response.inference_time >= 0
        /\ req[r].response.text_length = Len(req[r].texts[1])
        /\ DOMAIN req[r].response =
              {"success", "output_path", "inference_time", "text_length", "message"}

\* a standard and a fast synthesis both answered, one for "hello" after a
\* call that took time, one for a text of the maximum length
C21_Witness ==
    \E a \in SynthAnswered, b \in SynthAnswered :
        /\ req[a].kind = "tts" /\ req[b].kind = "tts_fast"
        /\ {req[a].response.text_length, req[b].response.text_length} = {5, MAX_TEXT_LENGTH}
        /\ req[a].response.inference_time > 0

\* C26: every engine call carries a text of 1 to 10000 characters, and a
\* batch of more than 100 items makes no engine call.
C26_TextBoundsBeforeAdmission ==
    /\ \A i \in 1..Len(calls) :
          MIN_TEXT_LENGTH <= Len(calls[i].text) /\ Len(calls[i].text) <= MAX_TEXT_LENGTH
    /\ \A r \in Req : Len(req[r].texts) > MAX_BATCH_ITEMS => CallsOf(r) = <<>>

\* an empty text, an over-long text and a batch of 101 items were refused,
\* each without an engine call, while a text of exactly 10000 characters
\* reached the engine
C26_Witness ==
    /\ \E r \in Req :
          /\ req[r].pc = "done" /\ req[r].status = 422
          /\ \/ Len(req[r].texts) = MAX_BATCH_ITEMS + 1
             \/ \E i \in 1..Len(req[r].texts) :
                   Len(req[r].texts[i]) \in {0, MAX_TEXT_LENGTH + 1}
          /\ CallsOf(r) = <<>>
    /\ \E i \in 1..Len(calls) : Len(calls[i].text) = MAX_TEXT_LENGTH

\* entries of the batch of request r, finished or still running
Entries(r) == IF req[r].kind = "batch_tts" THEN req[r].results ELSE <<>>

\* C23 (as claimed): every batch entry carries index, success flag and
\* per-item elapsed time; a successful one the output path and no error, a
\* failed one the error text and no output path.
C23_EntriesComplete ==
    \A r \in Req : \A k \in 1..Len(Entries(r)) :
        LET e == Entries(r)[k] IN
        /\ {"index", "success", "inference_time"} \subseteq DOMAIN e
        /\ e.success  => "output_path" \in DOMAIN e /\ "error" \notin DOMAIN e
        /\ ~e.success => "error" \in DOMAIN e /\ "output_path" \notin DOMAIN e

\* output paths reported as written: by a /tts or /tts_fast answer, or by a
\* successful batch entry
ReportedOutputs ==
    {req[r].response.output_path : r \in SynthAnswered}
    \cup UNION {{Entries(r)[k].output_path :
                    k \in {j \in 1..Len(Entries(r)) : Entries(r)[j].success}} : r \in Req}

\* C27: every engine call is for an item whose reference audio is given and
\* exists; a request refused for its reference makes no engine call, and
\* every generated output file on disk belongs to a call that returned.
C27_ReferenceCheckedBeforeEngine ==
    /\ \A i \in 1..Len(calls) :
          LET path == req[calls[i].req].items[calls[i].index + 1] IN
          path # NoPath /\ path \in fs
    /\ \A r \in Req :
          (/\ req[r].kind \in {"tts", "tts_fast"} /\ req[r].pc = "done"
           /\ (req[r].items[1] = NoPath \/ req[r].items[1] \notin fs))
          => CallsOf(r) = <<>> /\ PathOf(req[r].out) \notin fs
    /\ \A i \in 1..Len(allocated) :
          allocated[i].path \in fs => allocated[i].path \in ReportedOutputs

\* a /tts request with a non-existing reference was refused, and a batch
\* went past an item without reference and then wrote the output of another
C27_Witness ==
    /\ \E r \in Req :
          /\ req[r].kind = "tts" /\ req[r].pc = "done" /\ req[r].items = <<RefMissing>>
          /\ req[r].status = 500 /\ CallsOf(r) = <<>>
    /\ \E r \in Req : \E a, b \in 1..Len(Entries(r)) :
          /\ a < b
          /\ ~Entries(r)[a].success /\ Entries(r)[a].error = "reference audio missing"
          /\ Entries(r)[b].success /\ Entries(r)[b].output_path \in fs

\* C28: total = successful + failed and the window holds min(total, 1000)
\* samples in every state; no counter ever decreases, and a recording
\* raises total by 1 and exactly one of successful and failed by 1.
C28_CountersConsistent ==
    /\ [](/\ stats.total_requests = stats.successful_requests + stats.failed_requests
          /\ Len(stats.response_times) =
                IF stats.total_requests < WindowCap THEN stats.total_requests
                ELSE WindowCap)
    /\ [][/\ stats'.total_requests >= stats.total_requests
          /\ stats'.successful_requests >= stats.successful_requests
          /\ stats'.failed_requests >= stats.failed_requests
          /\ stats' # stats =>
               /\ stats'.total_requests = stats.total_requests + 1
               /\ \/ /\ stats'.successful_requests = stats.successful_requests + 1
                     /\ stats'.failed_requests = stats.failed_requests
                  \/ /\ stats'.successful_requests = stats.successful_requests
                     /\ stats'.failed_requests = stats.failed_requests + 1]_vars

\* more recordings than the window holds, successes and failures among them
C28_Witness ==
    /\ stats.total_requests > WindowCap
    /\ Len(stats.response_times) = WindowCap
    /\ stats.successful_requests > 0
    /\ stats.failed_requests > 0

\* the handler of request r runs to its end in this step
Completes(r) == req[r].pc = "queued" /\ req'[r].pc = "done"

\* C22 (as claimed): the average a stats response reports is exactly
\* sum(window) / len(window), 0 for an empty window, and its total is the
\* sum of its successful and failed counts.
C22_AverageIsExactMean ==
    [][\A r \in Req :
          Completes(r) /\ req[r].kind = "stats" =>
              LET body   == req'[r].response
                  window == stats.response_times
              IN  /\ window = <<>> => body.average_response_time = 0
                  /\ window # <<>> =>
                        body.average_response_time * Len(window) = 1000 * Sum(window)
                  /\ body.total_requests =
                        body.successful_requests + body.failed_requests]_vars

\* C22 (amended): the reported average is sum(window) / len(window) rounded
\* to the nearest thousandth, 0 for an empty window; the three counts are
\* those of the stats dictionary at the moment of the call, and total =
\* successful + failed.
C22_SnapshotConsistent ==
    [][\A r \in Req :
          Completes(r) /\ req[r].kind = "stats" =>
              LET body   == req'[r].response
                  window == stats.response_times
                  diff   == 1000 * Sum(window) - body.average_response_time * Len(window)
              IN  /\ window = <<>> => body.average_response_time = 0
                  /\ window # <<>> => 2 * diff <= Len(window) /\ -2 * diff <= Len(window)
                  /\ body.total_requests = stats.total_requests
                  /\ body.successful_requests = stats.successful_requests
                  /\ body.failed_requests = stats.failed_requests
                  /\ body.total_requests =
                        body.successful_requests + body.failed_requests]_vars

\* a snapshot taken of the window <<1, 0, 0>>, reported as 0.333, and one
\* taken after a further request was recorded
C22_Witness ==
    \E a \in Req, b \in Req :
        /\ req[a].kind = "stats" /\ req[a].pc = "done"
        /\ req[a].response.total_requests = 3
        /\ req[a].response.average_response_time = 333
        /\ req[b].kind = "tts" /\ req[b].pc = "done"
        /\ stats.total_requests = 4

\* names of the files in the outputs directory
OutputNames == {Join(stat[p].name) : p \in {q \in DOMAIN stat : stat[q].dir = "outputs"}}

\* the listing is complete for the set of names and newest first
Listing(files, names) ==
    /\ {files[i].filename : i \in 1..Len(files)} = names
    /\ Len(files) = Cardinality(names)
    /\ \A i \in 1..(Len(files) - 1) : files[i].created_time >= files[i + 1].created_time
    /\ \A i \in 1..Len(files) :
          files[i].created_time = stat["outputs/" \o files[i].filename].st_ctime

C25_HealthAlwaysAnswers ==
    \A r \in Req :
        req[r].kind = "health" /\ req[r].pc = "done" =>
            /\ req[r].status = 200
            /\ req[r].response.model_loaded <=> tts_instance # None
            /\ req[r].response.device = "unknown" <=> tts_instance = None
            /\ req[r].psutil # "ok" => req[r].response.memory_usage = "absent"

ReadOnlyKinds == {"health", "stats", "list", "download"}

\* C29: health, stats, list_audio_files and download_audio leave the
\* counters, the window, the engine handle and both directories as they
\* are; delete_audio and cleanup_old_files leave the counters, the window
\* and the engine handle as they are.
C29_ReadOnlyOperations ==
    [][\A r \in Req :
          Completes(r) =>
              /\ req[r].kind \in ReadOnlyKinds =>
                    /\ stats' = stats /\ tts_instance' = tts_instance
                    /\ fs' = fs /\ stat' = stat
              /\ req[r].kind \in {"delete", "cleanup"} =>
                    stats' = stats /\ tts_instance' = tts_instance]_vars

\* a read-only operation and a delete that removed a file have both run on
\* a service with requests counted and the engine loaded
C29_Witness ==
    \E a \in Req, b \in Req :
        /\ req[a].kind \in ReadOnlyKinds /\ req[a].pc = "done" /\ req[a].status = 200
        /\ req[b].kind = "delete" /\ req[b].pc = "done" /\ req[b].status = 200
        /\ "outputs/old.wav" \notin fs
        /\ stats = StatsAfterThree
        /\ tts_instance # None

\* C30 (as claimed): a run of cleanup_old_files that removes at least one
\* file answers 200 with the list of exactly the paths it removed.
C30_RemovedFilesReported ==
    [][\A r \in Req :
          Completes(r) /\ req[r].kind = "cleanup" /\ fs' # fs =>
              /\ req'[r].status = 200
              /\ req'[r].cleaned_files = fs \ fs']_vars

\* C31 (as claimed): whatever the filename argument, delete_audio removes
\* and download_audio returns only files of the outputs directory.
C31_ConfinedToOutputs ==
    [][\A r \in Req :
          Completes(r) =>
              /\ req[r].kind = "delete" =>
                    \A p \in DOMAIN stat : p \notin fs' => stat[p].dir = "outputs"
              /\ req[r].kind = "download" /\ req'[r].status = 200 =>
                    stat[req'[r].response.path].dir = "outputs"]_vars

\* C32 (as claimed): every engine call is started on the instance that the
\* global handle holds at that moment, and the handle keeps that instance
\* for as long as the call runs.
C32_CallsOnCurrentInstance ==
    [][/\ Len(calls') > Len(calls) => calls'[Len(calls')].inst = tts_instance'
       /\ \A r \in Req :
             req[r].pc \in {"infer", "batch_infer"} => tts_instance' = tts_instance]_vars

\* C33 (as claimed): an infer_fast call of a request that leaves out
\* max_text_tokens_per_sentence receives FAST_MAX_TEXT_TOKENS (100 when
\* unset), whatever MAX_TEXT_TOKENS is; every other field left out receives
\* the shared default; sentences_bucket_max_size reaches the engine as the
\* request gave it.
C33_FastProfileDefaults ==
    \A i \in 1..Len(calls) :
        LET c     == calls[i]
            given == req[c.req].given
            env   == config.environ
        IN  c.fn = "infer_fast" =>
              /\ "max_text_tokens_per_sentence" \notin DOMAIN given =>
                    c.kwargs.max_text_tokens_per_sentence =
                        getenv(env, "FAST_MAX_TEXT_TOKENS", 100)
              /\ "top_k" \notin DOMAIN given => c.kwargs.top_k = getenv(env, "TOP_K", 30)
              /\ \A f \in DOMAIN given : c.kwargs[f] = given[f]
              /\ "sentences_bucket_max_size" \notin DOMAIN given =>
                    c.kwargs.sentences_bucket_max_size =
                        getenv(env, "SENTENCES_BUCKET_SIZE", 4)
====
